---- MODULE Spec2Model ----
(***************************************************************************)
(* Traffic light task generator: the scenario sampler                      *)
(* (TaskGenerator._generate_task_data) and the transition simulator        *)
(* (TaskGenerator._calculate_final_state) of src/src/generator.py.         *)
(*                                                                         *)
(* The simulator is a pure function.  Its loop body is the operator        *)
(* LoopBody on the record of the function's locals; the state machine      *)
(* below applies it one loop iteration per step, and the operator          *)
(* CalculateFinalState iterates it to the returned scene.                  *)
(***************************************************************************)
EXTENDS Integers, Sequences, FiniteSets, TLC

(***************************************************************************)
(* Bounds of the model                                                     *)
(***************************************************************************)
\* largest countdown of a scene passed directly to _calculate_final_state
MaxCountdown == 4
\* largest explicit time_elapsed passed directly to _calculate_final_state
MaxElapsed == 6
\* task types 1..MaxTaskType can be configured; those above 4 are unknown types
MaxTaskType == 5
\* seeds 0..MaxSeed of the seeded runs
MaxSeed == 2
\* samples of one seeded run (num_samples)
MaxSamples == 2
\* hold_frames and frames_per_countdown of a direct call of the sequencer
MaxHoldFrames == 2
MaxFramesPerCountdown == 2

(***************************************************************************)
(* Values                                                                  *)
(***************************************************************************)
\* time_elapsed: Optional[int] = None; an absent "time_elapsed" key
None == 0 - 1

LightStates == {"red", "green"}

Min(x, y) == IF x <= y THEN x ELSE y
Max(x, y) == IF x >= y THEN x ELSE y

\* config.py: countdown_range_type1 / countdown_range_type2 defaults
countdown_range_type1 == <<2, 10>>
countdown_range_type2 == <<8, 20>>

\* config.py lines 49-57: the default task_type_distribution, in percent
DefaultDistribution == (1 :> 35 @@ 2 :> 30 @@ 3 :> 20 @@ 4 :> 15)

\* TaskConfig(...): the fields the generator reads
TaskConfig(dist, range1, range2, videos, seed) ==
    [task_type_distribution |-> dist,
     countdown_range_type1 |-> range1,
     countdown_range_type2 |-> range2,
     generate_videos |-> videos,
     show_countdown_at_zero |-> FALSE,
     random_seed |-> seed]

DefaultConfig ==
    TaskConfig(DefaultDistribution, countdown_range_type1,
               countdown_range_type2, TRUE, None)

\* the configurations a generator is constructed with: the defaults, videos
\* disabled, a subset of the types (--types 3 4), a long Type 2 range, an
\* inverted Type 1 range, a Type 1 range that starts at 0, a distribution
\* naming an unknown type, a distribution whose weights sum to 0.5, and
\* seeded runs
Configs ==
    { DefaultConfig,
      [DefaultConfig EXCEPT !.generate_videos = FALSE],
      [DefaultConfig EXCEPT !.task_type_distribution = (3 :> 50 @@ 4 :> 50)],
      [DefaultConfig EXCEPT !.task_type_distribution = (2 :> 100),
                            !.countdown_range_type2 = <<30, 32>>],
      [DefaultConfig EXCEPT !.task_type_distribution = (1 :> 100),
                            !.countdown_range_type1 = <<5, 2>>],
      [DefaultConfig EXCEPT !.task_type_distribution = (1 :> 100),
                            !.countdown_range_type1 = <<0, 1>>],
      [DefaultConfig EXCEPT !.task_type_distribution = (1 :> 50 @@ MaxTaskType :> 50)],
      [DefaultConfig EXCEPT !.task_type_distribution = (2 :> 50)] }
    \cup { [DefaultConfig EXCEPT !.random_seed = seed] : seed \in 0..MaxSeed }

VARIABLE config   \* the TaskConfig of the generator

(***************************************************************************)
(* examples/generate.py: the distribution built from the command line      *)
(***************************************************************************)
\* the parsed arguments main reads; ratios in percent, None when not given
Args(types, r1, r2, r3, r4) ==
    [types |-> types, type1_ratio |-> r1, type2_ratio |-> r2,
     type3_ratio |-> r3, type4_ratio |-> r4]

\* no option given
NoArgs == Args({}, None, None, None, None)

\* the command lines main is run with: --types 3 4; --type1-ratio 0.0;
\* --type1-ratio 0.0 --type2-ratio 0.3; all four ratios 0.2 0.15 0.1 0.05;
\* --type2-ratio 0.3
CliArgs ==
    { Args({3, 4}, None, None, None, None),
      Args({}, 0, None, None, None),
      Args({}, 0, 30, None, None),
      Args({}, 20, 15, 10, 5),
      Args({}, None, 30, None, None) }

\* Python's truth value of an Optional[float]
Truthy(x) == x # None /\ x # 0

\* what the options are documented to do: a given ratio is used, 0 included
OrGiven(x, default) == IF x # None THEN x ELSE default

\* generate.py lines 126-129: x or default
Or(x, default) == IF Truthy(x) THEN x ELSE default

\* generate.py lines 125-130: the weights before normalisation
Ratios(a) ==
    (1 :> Or(a.type1_ratio, 35) @@ 2 :> Or(a.type2_ratio, 30)
       @@ 3 :> Or(a.type3_ratio, 20) @@ 4 :> Or(a.type4_ratio, 15))

\* generate.py line 132: sum(ratios.values())
Total(ratios) == ratios[1] + ratios[2] + ratios[3] + ratios[4]

\* generate.py line 117: task_type_distribution = None, as a distribution
\* without types
NoDistribution == <<>>

\* generate.py lines 118-133: task_type_distribution, None when no option
\* sets it
BuildDistribution(a) ==
    IF a.types # {}
    THEN [t \in a.types |-> 100 \div Cardinality(a.types)]
    ELSE IF \/ Truthy(a.type1_ratio) \/ Truthy(a.type2_ratio)
            \/ Truthy(a.type3_ratio) \/ Truthy(a.type4_ratio)
    THEN [k \in 1..4 |-> (Ratios(a)[k] * 100) \div Total(Ratios(a))]
    ELSE NoDistribution

(***************************************************************************)
(* The random source.  Its state is None when it was not seeded (every     *)
(* draw can give any value of its range) and a number when it was seeded   *)
(* (the draws are a fixed sequence).                                       *)
(***************************************************************************)
RngNext(g) == IF g = None THEN None ELSE (21 * g + 7) % 100

\* random.random(), in percent: 0..99 stands for 0.00..0.99
random(g) == IF g = None THEN 0..99 ELSE {g}

\* random.randint(lo, hi): an integer of the inclusive range; no value
\* (ValueError) when the range is empty
randint(g, lo, hi) ==
    IF g = None THEN lo..hi
    ELSE IF lo > hi THEN {}
    ELSE {lo + (g % (hi - lo + 1))}

TaskDict(sa, ca, sb, cb, te, t) ==
    [light_a_state |-> sa, light_a_countdown |-> ca,
     light_b_state |-> sb, light_b_countdown |-> cb,
     time_elapsed |-> te, task_type |-> t]

\* a returned dict and the random source after its draws
Drawn(data, g) == [data |-> data, rng |-> g]

(***************************************************************************)
(* _select_task_type                                                       *)
(***************************************************************************)
\* slip: the fallback returns the largest configured key
RECURSIVE select_from_fallback_last(_, _, _, _)
select_from_fallback_last(dist, r, key, cumulative) ==
    IF key > MaxTaskType
    THEN CHOOSE k \in DOMAIN dist : \A j \in DOMAIN dist : j <= k
    ELSE IF key \in DOMAIN dist
    THEN IF r <= cumulative + dist[key]
         THEN key
         ELSE select_from_fallback_last(dist, r, key + 1, cumulative + dist[key])
    ELSE select_from_fallback_last(dist, r, key + 1, cumulative)

\* lines 101-106: the loop over the sorted items from `key' on
RECURSIVE select_from(_, _, _, _)
select_from(dist, r, key, cumulative) ==
    IF key > MaxTaskType
    THEN 1
    ELSE IF key \in DOMAIN dist
    THEN IF r <= cumulative + dist[key]
         THEN key
         ELSE select_from(dist, r, key + 1, cumulative + dist[key])
    ELSE select_from(dist, r, key + 1, cumulative)

\* lines 98-106
select_task_type(dist, r) == select_from(dist, r, 1, 0)

(***************************************************************************)
(* _generate_task_data(task_type): the set of dicts it can return          *)
(***************************************************************************)
Type1Data(g) ==
    { Drawn(TaskDict("red", countdown_a, "green", 0, None, 1), RngNext(g)) :
        countdown_a \in randint(g, config.countdown_range_type1[1],
                                   config.countdown_range_type1[2]) }

Type2Data(g) ==
    { Drawn(TaskDict("red", countdown_a, "green", 0, None, 2), RngNext(g)) :
        countdown_a \in randint(g, config.countdown_range_type2[1],
                                   config.countdown_range_type2[2]) }

\* slip: countdown_b is not capped at 7
Type3DataNoCap(g) ==
    UNION { { Drawn(TaskDict("red", countdown_a, "green", countdown_b, None, 3),
                    RngNext(RngNext(g))) :
                countdown_b \in randint(RngNext(g), 3, countdown_a - 1) } :
            countdown_a \in randint(g, 8, 15) }

Type3Data(g) ==
    UNION { { Drawn(TaskDict("red", countdown_a, "green", countdown_b, None, 3),
                    RngNext(RngNext(g))) :
                countdown_b \in randint(RngNext(g), 3, Min(7, countdown_a - 1)) } :
            countdown_a \in randint(g, 8, 15) }

\* slip: the elapsed range starts from the smaller countdown
Type4DataMinElapsed(g) ==
    UNION { UNION { { Drawn(TaskDict("red", countdown_a, "green", countdown_b, te, 4),
                            RngNext(RngNext(RngNext(g)))) :
                        te \in randint(RngNext(RngNext(g)),
                                       Min(countdown_a, countdown_b) + 2,
                                       Max(countdown_a, countdown_b) + 8) } :
                    countdown_b \in randint(RngNext(g), 3, 7) } :
            countdown_a \in randint(g, 5, 10) }

Type4Data(g) ==
    UNION { UNION { { Drawn(TaskDict("red", countdown_a, "green", countdown_b, te, 4),
                            RngNext(RngNext(RngNext(g)))) :
                        te \in randint(RngNext(RngNext(g)),
                                       Max(countdown_a, countdown_b) + 2,
                                       Max(countdown_a, countdown_b) + 8) } :
                    countdown_b \in randint(RngNext(g), 3, 7) } :
            countdown_a \in randint(g, 5, 10) }

generate_task_data(t, g) ==
    IF t = 1 THEN Type1Data(g)
    ELSE IF t = 2 THEN Type2Data(g)
    ELSE IF t = 3 THEN Type3Data(g)
    ELSE IF t = 4 THEN Type4Data(g)
    ELSE Type1Data(g)

(***************************************************************************)
(* _calculate_final_state                                                  *)
(***************************************************************************)
\* slip: with both lights counting the larger countdown is taken
ResolveElapsedMax(ca, cb, te) ==
    IF te = None
    THEN IF ca > 0 /\ cb > 0 THEN Max(ca, cb)
         ELSE IF ca > 0 THEN ca
         ELSE IF cb > 0 THEN cb
         ELSE 0
    ELSE te

\* slip: the single-countdown branches read the other light's countdown
ResolveElapsedOther(ca, cb, te) ==
    IF te = None
    THEN IF ca > 0 /\ cb > 0 THEN Min(ca, cb)
         ELSE IF ca > 0 THEN cb
         ELSE IF cb > 0 THEN ca
         ELSE 0
    ELSE te

\* slip: "if not time_elapsed" takes an explicit 0 for an omitted elapsed
ResolveElapsedFalsy(ca, cb, te) ==
    IF te = None \/ te = 0
    THEN IF ca > 0 /\ cb > 0 THEN Min(ca, cb)
         ELSE IF ca > 0 THEN ca
         ELSE IF cb > 0 THEN cb
         ELSE 0
    ELSE te

\* lines 191-201: the time to simulate
ResolveElapsed(ca, cb, te) ==
    IF te = None
    THEN IF ca > 0 /\ cb > 0 THEN Min(ca, cb)
         ELSE IF ca > 0 THEN ca
         ELSE IF cb > 0 THEN cb
         ELSE 0
    ELSE te

\* lines 185-204: the locals before the loop
InitLocals(sa, ca, sb, cb, te) ==
    [light_a_countdown |-> ca, light_b_countdown |-> cb,
     current_a_state |-> sa, current_a_countdown |-> ca,
     current_b_state |-> sb, current_b_countdown |-> cb,
     time_remaining |-> ResolveElapsed(ca, cb, te)]

\* line 206 and the break of lines 220-222
LoopRuns(s) ==
    /\ s.time_remaining > 0
    /\ (s.current_a_countdown > 0 \/ s.current_b_countdown > 0)

\* lines 208-219: units until the next countdown reaches 0
Steps(s) ==
    IF s.current_a_countdown > 0 /\ s.current_b_countdown > 0
    THEN IF s.current_a_countdown <= s.current_b_countdown
         THEN s.current_a_countdown
         ELSE s.current_b_countdown
    ELSE IF s.current_a_countdown > 0 THEN s.current_a_countdown
    ELSE s.current_b_countdown

\* slip: the steps are not limited to the time remaining
ClampStepsOmitted(steps, time_remaining) == steps

\* line 225
ClampSteps(steps, time_remaining) == Min(steps, time_remaining)

\* slip: the decrement starts from the parameter, not the running countdown
DecrementFromInitial(s) ==
    LET steps == ClampSteps(Steps(s), s.time_remaining) IN
    [s EXCEPT !.current_a_countdown = IF @ > 0 THEN s.light_a_countdown - steps ELSE @,
              !.current_b_countdown = IF @ > 0 THEN s.light_b_countdown - steps ELSE @,
              !.time_remaining = @ - steps]

\* lines 228-232
Decrement(s) ==
    LET steps == ClampSteps(Steps(s), s.time_remaining) IN
    [s EXCEPT !.current_a_countdown = IF @ > 0 THEN @ - steps ELSE @,
              !.current_b_countdown = IF @ > 0 THEN @ - steps ELSE @,
              !.time_remaining = @ - steps]

\* slip: the GREEN-light check is evaluated before the RED-light check
SwitchBranchGreenFirst(s) ==
    IF s.current_b_countdown = 0 /\ s.current_b_state = "green" THEN "b_green"
    ELSE IF s.current_a_countdown = 0 /\ s.current_a_state = "red" THEN "a_red"
    ELSE "none"

\* lines 235 and 242: which branch of the switch check is taken
SwitchBranch(s) ==
    IF s.current_a_countdown = 0 /\ s.current_a_state = "red" THEN "a_red"
    ELSE IF s.current_b_countdown = 0 /\ s.current_b_state = "green" THEN "b_green"
    ELSE "none"

\* slip: only the expired light changes colour
SwitchForgetSibling(s) ==
    IF SwitchBranch(s) = "a_red"
    THEN [s EXCEPT !.current_a_state = "green",
                   !.current_b_countdown = IF @ > 0 THEN 0 ELSE @]
    ELSE IF SwitchBranch(s) = "b_green"
    THEN [s EXCEPT !.current_b_state = "red",
                   !.current_a_countdown = IF @ > 0 THEN 0 ELSE @]
    ELSE s

\* slip: the sibling's running countdown is not cancelled
SwitchNoCancel(s) ==
    IF SwitchBranch(s) = "a_red"
    THEN [s EXCEPT !.current_a_state = "green", !.current_b_state = "red"]
    ELSE IF SwitchBranch(s) = "b_green"
    THEN [s EXCEPT !.current_b_state = "red", !.current_a_state = "green"]
    ELSE s

\* lines 235-248
Switch(s) ==
    IF SwitchBranch(s) = "a_red"
    THEN [s EXCEPT !.current_a_state = "green", !.current_b_state = "red",
                   !.current_b_countdown = IF @ > 0 THEN 0 ELSE @]
    ELSE IF SwitchBranch(s) = "b_green"
    THEN [s EXCEPT !.current_b_state = "red", !.current_a_state = "green",
                   !.current_a_countdown = IF @ > 0 THEN 0 ELSE @]
    ELSE s

\* lines 207-248: one iteration of the while loop
LoopBody(s) == Switch(Decrement(s))

\* lines 250-255
Scene(s) ==
    [light_a_state |-> s.current_a_state,
     light_a_countdown |-> s.current_a_countdown,
     light_b_state |-> s.current_b_state,
     light_b_countdown |-> s.current_b_countdown]

RECURSIVE RunLoop(_)
RunLoop(s) == IF LoopRuns(s) THEN RunLoop(LoopBody(s)) ELSE s

CalculateFinalState(sa, ca, sb, cb, te) ==
    Scene(RunLoop(InitLocals(sa, ca, sb, cb, te)))

\* advance(scene, elapsed) on a scene dict
Advance(scene, te) ==
    CalculateFinalState(scene.light_a_state, scene.light_a_countdown,
                        scene.light_b_state, scene.light_b_countdown, te)

(***************************************************************************)
(* Rendering, prompts                                                      *)
(***************************************************************************)
\* _draw_traffic_light lines 351, 377-378: the colour of a light and the
\* countdown text drawn below it (None: no text)
DrawLight(state, countdown) ==
    [colour |-> state,
     text |-> IF countdown > 0 \/ (countdown = 0 /\ config.show_countdown_at_zero)
              THEN countdown ELSE None]

\* _render_traffic_light: what the image of a scene shows
Render(sa, ca, sb, cb) == [a |-> DrawLight(sa, ca), b |-> DrawLight(sb, cb)]

RenderScene(scene) ==
    Render(scene.light_a_state, scene.light_a_countdown,
           scene.light_b_state, scene.light_b_countdown)

\* prompts.py lines 112-117: the number of variants of each type's prompts
TYPE_PROMPTS == (1 :> 5 @@ 2 :> 5 @@ 3 :> 5 @@ 4 :> 5)

\* prompts.py line 133: TYPE_PROMPTS.get(task_type, TYPE_1_PROMPTS)
PromptsOf(t) == IF t \in DOMAIN TYPE_PROMPTS THEN t ELSE 1

(***************************************************************************)
(* _create_countdown_animation_frames                                      *)
(***************************************************************************)
\* lines 436-437: the defaults of hold_frames and frames_per_countdown
hold_frames_default == 5
frames_per_countdown_default == 2

\* line 567: the safety bound of the walk
SafetyBound == 30

\* n copies of a frame
Repeat(frame, n) == [i \in 1..n |-> frame]

\* lines 455-461, 483-500: the locals before the walk
SeqLocals(td, hold, fpc) ==
    [hold_frames |-> hold,
     frames_per_countdown |-> fpc,
     max_countdown |-> Max(td.light_a_countdown, td.light_b_countdown),
     total_time |-> Max(td.light_a_countdown, td.light_b_countdown) + 1,
     current_a_state |-> td.light_a_state,
     current_a_countdown |-> td.light_a_countdown,
     current_b_state |-> td.light_b_state,
     current_b_countdown |-> td.light_b_countdown,
     prev_a_countdown |-> td.light_a_countdown,
     prev_b_countdown |-> td.light_b_countdown,
     time_elapsed |-> 0,
     switched |-> "none",
     exit |-> "run"]

\* slip: the countdown is not floored at 0
CountdownAtNoFloor(countdown, t) == IF countdown > 0 THEN countdown - t ELSE 0

\* lines 504-505: a countdown at time t, from its initial value
CountdownAt(countdown, t) == IF countdown > 0 THEN Max(0, countdown - t) ELSE 0

\* lines 517-536: the switch taken in this unit
WalkSwitch(w, a_just_reached_zero, b_just_reached_zero) ==
    IF a_just_reached_zero /\ b_just_reached_zero
    THEN IF w.current_a_state = "red" THEN "a_red"
         ELSE IF w.current_b_state = "green" THEN "b_green"
         ELSE "none"
    ELSE IF a_just_reached_zero /\ w.current_a_state = "red" THEN "a_red"
    ELSE IF b_just_reached_zero /\ w.current_b_state = "green" THEN "b_green"
    ELSE "none"

\* slip: the safety check is missing
WalkExitNoSafety(w, fs) ==
    IF /\ w.current_a_state = fs.light_a_state
       /\ w.current_a_countdown = fs.light_a_countdown
       /\ w.current_b_state = fs.light_b_state
       /\ w.current_b_countdown = fs.light_b_countdown
    THEN "matched"
    ELSE IF w.current_a_countdown = 0 /\ w.current_b_countdown = 0
              /\ ~(w.time_elapsed <= w.total_time)
    THEN "limit"
    ELSE "run"

\* slip: the comparison with the final state never succeeds
WalkExitNoMatch(w, fs) ==
    IF w.time_elapsed > SafetyBound THEN "safety"
    ELSE IF ~(w.time_elapsed <= w.total_time) THEN "limit"
    ELSE "run"

\* lines 559-568 and the loop test of line 502: why the walk stops after
\* a unit, "run" when it goes on
WalkExit(w, fs) ==
    IF /\ w.current_a_state = fs.light_a_state
       /\ w.current_a_countdown = fs.light_a_countdown
       /\ w.current_b_state = fs.light_b_state
       /\ w.current_b_countdown = fs.light_b_countdown
    THEN "matched"
    ELSE IF w.time_elapsed > SafetyBound THEN "safety"
    ELSE IF ~(w.time_elapsed <= w.total_time) THEN "limit"
    ELSE "run"

\* slip: a switch changes the expired light only
WalkBodyForgetSibling(w, td, fs) ==
    LET new_a_countdown == CountdownAt(td.light_a_countdown, w.time_elapsed)
        new_b_countdown == CountdownAt(td.light_b_countdown, w.time_elapsed)
        a_just_reached_zero == w.prev_a_countdown > 0 /\ new_a_countdown = 0
        b_just_reached_zero == w.prev_b_countdown > 0 /\ new_b_countdown = 0
        sw == WalkSwitch(w, a_just_reached_zero, b_just_reached_zero)
        u == [w EXCEPT
                !.prev_a_countdown = w.current_a_countdown,
                !.prev_b_countdown = w.current_b_countdown,
                !.current_a_countdown = IF sw = "b_green" THEN 0 ELSE new_a_countdown,
                !.current_b_countdown = IF sw = "a_red" THEN 0 ELSE new_b_countdown,
                !.current_a_state = IF sw = "a_red" THEN "green" ELSE @,
                !.current_b_state = IF sw = "b_green" THEN "red" ELSE @,
                !.switched = sw,
                !.time_elapsed = @ + 1]
    IN  [u EXCEPT !.exit = WalkExit(u, fs)]

\* slip: a countdown of 0 is tested by value, as the simulator does
WalkBodyByValue(w, td, fs) ==
    LET new_a_countdown == CountdownAt(td.light_a_countdown, w.time_elapsed)
        new_b_countdown == CountdownAt(td.light_b_countdown, w.time_elapsed)
        a_just_reached_zero == new_a_countdown = 0
        b_just_reached_zero == new_b_countdown = 0
        sw == WalkSwitch(w, a_just_reached_zero, b_just_reached_zero)
        u == [w EXCEPT
                !.prev_a_countdown = w.current_a_countdown,
                !.prev_b_countdown = w.current_b_countdown,
                !.current_a_countdown = IF sw = "b_green" THEN 0 ELSE new_a_countdown,
                !.current_b_countdown = IF sw = "a_red" THEN 0 ELSE new_b_countdown,
                !.current_a_state = IF sw = "none" THEN @ ELSE "green",
                !.current_b_state = IF sw = "none" THEN @ ELSE "red",
                !.switched = sw,
                !.time_elapsed = @ + 1]
    IN  [u EXCEPT !.exit = WalkExit(u, fs)]

\* lines 503-568: one unit of the walk, without the frames
WalkBody(w, td, fs) ==
    LET new_a_countdown == CountdownAt(td.light_a_countdown, w.time_elapsed)
        new_b_countdown == CountdownAt(td.light_b_countdown, w.time_elapsed)
        a_just_reached_zero == w.prev_a_countdown > 0 /\ new_a_countdown = 0
        b_just_reached_zero == w.prev_b_countdown > 0 /\ new_b_countdown = 0
        sw == WalkSwitch(w, a_just_reached_zero, b_just_reached_zero)
        u == [w EXCEPT
                !.prev_a_countdown = w.current_a_countdown,
                !.prev_b_countdown = w.current_b_countdown,
                !.current_a_countdown = IF sw = "b_green" THEN 0 ELSE new_a_countdown,
                !.current_b_countdown = IF sw = "a_red" THEN 0 ELSE new_b_countdown,
                !.current_a_state = IF sw = "none" THEN @ ELSE "green",
                !.current_b_state = IF sw = "none" THEN @ ELSE "red",
                !.switched = sw,
                !.time_elapsed = @ + 1]
    IN  [u EXCEPT !.exit = WalkExit(u, fs)]

\* the running scene of the walk
WalkScene(w) ==
    [light_a_state |-> w.current_a_state,
     light_a_countdown |-> w.current_a_countdown,
     light_b_state |-> w.current_b_state,
     light_b_countdown |-> w.current_b_countdown]

\* slip: the tail is kept whatever the length
DropTailNever(fr, hold, fpc) == fr

\* lines 572-574: the frames of the last unit are dropped
DropTail(fr, hold, fpc) ==
    IF Len(fr) > hold + fpc THEN SubSeq(fr, 1, Len(fr) - fpc) ELSE fr

(***************************************************************************)
(* State                                                                   *)
(***************************************************************************)
VARIABLES
    pc,              \* where the program is
    video_generator, \* TRUE when self.video_generator is not None
    rng,             \* state of the random source
    task_type,       \* the type _select_task_type returned
    task_data,       \* the dict the simulator is called with
    loc,             \* locals of _calculate_final_state
    final_state,     \* the dict _calculate_final_state returned
    branch,          \* switch branch taken by the last loop iteration
    switches,        \* colour changes in this call
    iterations,      \* loop iterations in this call
    first_image,     \* TaskPair.first_image
    final_image,     \* TaskPair.final_image
    video_path,      \* TaskPair.ground_truth_video
    prompt,          \* TaskPair.prompt: the prompt list and the variant
    err,             \* the exception that ended generation
    run,             \* 1, or 2 for the repeated run of a seeded generator
    sample_no,       \* samples returned in this seeded run
    log,             \* the samples of the first seeded run
    seq,             \* locals of _create_countdown_animation_frames
    frames,          \* the frame list being built
    args             \* the command line main was run with

simvars == <<task_data, loc, final_state, branch, switches, iterations>>
seqvars == <<seq, frames>>
pairvars == <<task_type, first_image, final_image, video_path, prompt>>
runvars == <<config, video_generator, run, sample_no, log, args>>

vars == <<pc, config, video_generator, rng, task_type, task_data, loc,
          final_state, branch, switches, iterations, first_image,
          final_image, video_path, prompt, err, run, sample_no, log, seq,
          frames, args>>

NoTask == TaskDict("red", 0, "green", 0, None, 0)
NoScene == [light_a_state |-> "none", light_a_countdown |-> 0,
            light_b_state |-> "none", light_b_countdown |-> 0]
NoImage == [a |-> [colour |-> "none", text |-> None],
            b |-> [colour |-> "none", text |-> None]]
NoPrompt == [prompts |-> 0, index |-> 0]

LocalsOf(td) ==
    InitLocals(td.light_a_state, td.light_a_countdown,
               td.light_b_state, td.light_b_countdown, td.time_elapsed)

Seeded == config.random_seed # None

Init ==
    /\ pc = "idle"
    /\ config = DefaultConfig
    /\ video_generator = FALSE
    /\ rng = None
    /\ task_type = 0
    /\ task_data = NoTask
    /\ loc = LocalsOf(NoTask)
    /\ final_state = NoScene
    /\ branch = "none"
    /\ switches = 0
    /\ iterations = 0
    /\ first_image = NoImage
    /\ final_image = NoImage
    /\ video_path = "none"
    /\ prompt = NoPrompt
    /\ err = "none"
    /\ run = 1
    /\ sample_no = 0
    /\ log = <<>>
    /\ seq = SeqLocals(NoTask, 0, 0)
    /\ frames = <<>>
    /\ args = NoArgs

\* generate.py lines 158-161 and TaskGenerator.__init__: any configuration
\* is accepted; the video generator exists when videos are enabled and an
\* encoder is available; the random source is seeded with random_seed
Configure ==
    /\ pc = "idle"
    /\ config' \in Configs
    /\ \E available \in BOOLEAN :
          video_generator' = (config'.generate_videos /\ available)
    /\ rng' = config'.random_seed
    /\ pc' = "ready"
    /\ UNCHANGED <<seqvars, simvars, pairvars, err, run, sample_no, log, args>>

\* generate.py main lines 113-161: the distribution is built from the
\* options, the TaskConfig takes it when it is set and the generator is
\* constructed
Main ==
    /\ pc = "idle"
    /\ args' \in CliArgs
    /\ config' = IF DOMAIN BuildDistribution(args') = {}
                 THEN DefaultConfig
                 ELSE [DefaultConfig EXCEPT
                          !.task_type_distribution = BuildDistribution(args')]
    /\ \E available \in BOOLEAN :
          video_generator' = (config'.generate_videos /\ available)
    /\ rng' = config'.random_seed
    /\ pc' = "ready"
    /\ UNCHANGED <<seqvars, simvars, pairvars, err, run, sample_no, log>>

\* generate_task_pair line 40
SelectTaskType ==
    /\ pc = "ready"
    /\ Seeded => sample_no < MaxSamples
    /\ \E r \in random(rng) :
          task_type' = select_task_type(config.task_type_distribution, r)
    /\ rng' = RngNext(rng)
    /\ pc' = "selected"
    /\ UNCHANGED <<seqvars, simvars, first_image, final_image, video_path, prompt,
                   err, runvars>>

\* generate_task_pair lines 43-51: the task data and the first image, or
\* the ValueError of random.randint on an empty range
GenerateTaskData ==
    /\ pc = "selected"
    /\ IF generate_task_data(task_type, rng) = {}
       THEN /\ pc' = "error"
            /\ err' = "ValueError"
            /\ UNCHANGED <<rng, task_data, first_image>>
       ELSE /\ \E d \in generate_task_data(task_type, rng) :
                  /\ task_data' = d.data
                  /\ rng' = d.rng
                  /\ first_image' = Render(d.data.light_a_state,
                                           d.data.light_a_countdown,
                                           d.data.light_b_state,
                                           d.data.light_b_countdown)
            /\ pc' = "called"
            /\ err' = err
    /\ UNCHANGED <<seqvars, loc, final_state, branch, switches, iterations, task_type,
                   final_image, video_path, prompt, runvars>>

\* _calculate_final_state called with any scene and elapsed
DirectCall ==
    /\ pc = "idle"
    /\ \E sa \in LightStates, sb \in LightStates,
          ca \in 0..MaxCountdown, cb \in 0..MaxCountdown,
          te \in {None} \cup 0..MaxElapsed :
            task_data' = TaskDict(sa, ca, sb, cb, te, 0)
    /\ pc' = "called"
    /\ UNCHANGED <<seqvars, loc, final_state, branch, switches, iterations, rng,
                   pairvars, err, runvars>>

\* lines 185-204
Enter ==
    /\ pc = "called"
    /\ loc' = LocalsOf(task_data)
    /\ pc' = "loop"
    /\ branch' = "none"
    /\ switches' = 0
    /\ iterations' = 0
    /\ UNCHANGED <<seqvars, task_data, final_state, rng, pairvars, err, runvars>>

\* lines 206-248: one loop iteration
Iterate ==
    /\ pc = "loop"
    /\ LoopRuns(loc)
    /\ loc' = LoopBody(loc)
    /\ branch' = SwitchBranch(Decrement(loc))
    /\ switches' = IF loc'.current_a_state # loc.current_a_state
                      \/ loc'.current_b_state # loc.current_b_state
                   THEN switches + 1 ELSE switches
    /\ iterations' = iterations + 1
    /\ UNCHANGED <<seqvars, pc, task_data, final_state, rng, pairvars, err, runvars>>

\* lines 206, 222, 250-255: loop exit and return
Return ==
    /\ pc = "loop"
    /\ ~LoopRuns(loc)
    /\ final_state' = Scene(loc)
    /\ pc' = "done"
    /\ UNCHANGED <<seqvars, task_data, loc, branch, switches, iterations, rng,
                   pairvars, err, runvars>>

\* slip: the video generator is not tested
VideoEnabledUnchecked == config.generate_videos

\* generate_task_pair line 72
VideoEnabled == config.generate_videos /\ video_generator

\* generate_task_pair lines 62-75 when no video is generated
SkipVideo ==
    /\ pc = "done"
    /\ task_data.task_type # 0
    /\ ~VideoEnabled
    /\ final_image' = RenderScene(final_state)
    /\ video_path' = "none"
    /\ pc' = "prompt"
    /\ UNCHANGED <<seqvars, simvars, rng, task_type, first_image, prompt, err, runvars>>

\* slip: the test for a scene without countdown is missing
StartFramesNoShortcut(hold, fpc) ==
    LET first_frame == Render(task_data.light_a_state, task_data.light_a_countdown,
                              task_data.light_b_state, task_data.light_b_countdown)
    IN  /\ seq' = SeqLocals(task_data, hold, fpc)
        /\ frames' = Repeat(first_frame, hold)
        /\ pc' = "walk"

\* lines 453-491: the sequencer is entered; without a countdown the frame
\* list is complete at once (lines 475-481)
StartFrames(hold, fpc) ==
    LET first_frame == Render(task_data.light_a_state, task_data.light_a_countdown,
                              task_data.light_b_state, task_data.light_b_countdown)
        final_frame == RenderScene(final_state)
        w == SeqLocals(task_data, hold, fpc)
    IN  IF w.max_countdown = 0
        THEN /\ seq' = [w EXCEPT !.exit = "none"]
             /\ frames' = Repeat(first_frame, hold) \o Repeat(final_frame, hold)
             /\ pc' = "frames"
        ELSE /\ seq' = w
             /\ frames' = Repeat(first_frame, hold)
             /\ pc' = "walk"

\* slip: the video file is named with a value taken from the random source
GenerateVideoDraws ==
    /\ pc = "done"
    /\ task_data.task_type # 0
    /\ VideoEnabled
    /\ final_image' = RenderScene(final_state)
    /\ StartFrames(hold_frames_default, frames_per_countdown_default)
    /\ rng' = RngNext(rng)
    /\ UNCHANGED <<simvars, task_type, first_image, video_path, prompt,
                   err, runvars>>

\* generate_task_pair lines 62-75 and _generate_video lines 415-422
GenerateVideo ==
    /\ pc = "done"
    /\ task_data.task_type # 0
    /\ VideoEnabled
    /\ final_image' = RenderScene(final_state)
    /\ StartFrames(hold_frames_default, frames_per_countdown_default)
    /\ UNCHANGED <<simvars, rng, task_type, first_image, video_path, prompt,
                   err, runvars>>

\* _create_countdown_animation_frames lines 432-437: the caller passes any
\* final_state, also one the simulator did not compute
GivenFinalState ==
    /\ pc = "done"
    /\ task_data.task_type = 0
    /\ task_data.time_elapsed = None
    /\ \E sa \in LightStates, sb \in LightStates,
          ca \in 0..MaxCountdown, cb \in 0..MaxCountdown :
            final_state' = [light_a_state |-> sa, light_a_countdown |-> ca,
                            light_b_state |-> sb, light_b_countdown |-> cb]
    /\ pc' = "given"
    /\ UNCHANGED <<seqvars, task_data, loc, branch, switches, iterations, rng,
                   pairvars, err, runvars>>

\* _create_countdown_animation_frames called with the scene and the final
\* state of a direct call
DirectSequence ==
    /\ pc \in {"done", "given"}
    /\ task_data.task_type = 0
    /\ \E hold \in 1..MaxHoldFrames, fpc \in 1..MaxFramesPerCountdown :
          StartFrames(hold, fpc)
    /\ UNCHANGED <<simvars, rng, pairvars, err, runvars>>

\* lines 502-568: one unit of the walk and its frames
WalkUnit ==
    /\ pc = "walk"
    /\ seq.exit = "run"
    /\ seq' = WalkBody(seq, task_data, final_state)
    /\ frames' = frames \o Repeat(RenderScene(WalkScene(seq')),
                                  seq.frames_per_countdown)
    /\ UNCHANGED <<pc, simvars, rng, pairvars, err, runvars>>

\* slip: the last frame of the walk is held instead of the final frame
FinishFramesLastFrame ==
    /\ pc = "walk"
    /\ seq.exit # "run"
    /\ frames' = DropTail(frames, seq.hold_frames, seq.frames_per_countdown)
                    \o Repeat(RenderScene(WalkScene(seq)), seq.hold_frames)
    /\ pc' = "frames"
    /\ UNCHANGED <<seq, simvars, rng, pairvars, err, runvars>>

\* lines 570-580: the tail is dropped and the final frame is held
FinishFrames ==
    /\ pc = "walk"
    /\ seq.exit # "run"
    /\ frames' = DropTail(frames, seq.hold_frames, seq.frames_per_countdown)
                    \o Repeat(RenderScene(final_state), seq.hold_frames)
    /\ pc' = "frames"
    /\ UNCHANGED <<seq, simvars, rng, pairvars, err, runvars>>

\* _generate_video lines 424-430: the encoder returns a path or nothing
EncodeVideo ==
    /\ pc = "frames"
    /\ task_data.task_type # 0
    /\ IF frames # <<>>
       THEN video_path' \in {"path", "none"}
       ELSE video_path' = "none"
    /\ pc' = "prompt"
    /\ UNCHANGED <<seqvars, simvars, rng, task_type, first_image, final_image,
                   prompt, err, runvars>>

\* the sample generate_task_pair returns, as the runs are compared
Sample == [task_type |-> task_type, task_data |-> task_data]

\* generate_task_pair lines 77-92 and prompts.py lines 133-142
ReturnPair ==
    /\ pc = "prompt"
    /\ \E i \in randint(rng, 0, TYPE_PROMPTS[PromptsOf(task_type)] - 1) :
          prompt' = [prompts |-> PromptsOf(task_type), index |-> i]
    /\ rng' = RngNext(rng)
    /\ log' = IF Seeded /\ run = 1 THEN Append(log, Sample) ELSE log
    /\ pc' = "returned"
    /\ UNCHANGED <<seqvars, simvars, task_type, first_image, final_image, video_path,
                   err, config, video_generator, run, sample_no, args>>

\* the next generate_task_pair call of the dataset loop
NextSample ==
    /\ pc = "returned"
    /\ pc' = "ready"
    /\ sample_no' = IF Seeded THEN sample_no + 1 ELSE sample_no
    /\ task_type' = 0
    /\ task_data' = NoTask
    /\ loc' = LocalsOf(NoTask)
    /\ final_state' = NoScene
    /\ branch' = "none"
    /\ switches' = 0
    /\ iterations' = 0
    /\ first_image' = NoImage
    /\ final_image' = NoImage
    /\ video_path' = "none"
    /\ prompt' = NoPrompt
    /\ UNCHANGED <<rng, err, config, video_generator, run, log, args>>
    /\ seq' = SeqLocals(NoTask, 0, 0)
    /\ frames' = <<>>

\* a second run of a seeded generator: the same seed and distribution, with
\* or without videos
Rerun ==
    /\ pc = "ready"
    /\ Seeded
    /\ run = 1
    /\ sample_no = MaxSamples
    /\ \E videos \in BOOLEAN, available \in BOOLEAN :
          /\ config' = [config EXCEPT !.generate_videos = videos]
          /\ video_generator' = (videos /\ available)
    /\ rng' = config.random_seed
    /\ run' = 2
    /\ sample_no' = 0
    /\ UNCHANGED <<seqvars, pc, simvars, pairvars, err, log, args>>

\* the end of a direct call
NextTask ==
    /\ pc \in {"done", "frames"}
    /\ task_data.task_type = 0
    /\ pc' = "idle"
    /\ task_data' = NoTask
    /\ loc' = LocalsOf(NoTask)
    /\ final_state' = NoScene
    /\ branch' = "none"
    /\ switches' = 0
    /\ iterations' = 0
    /\ UNCHANGED <<rng, pairvars, err, runvars>>
    /\ seq' = SeqLocals(NoTask, 0, 0)
    /\ frames' = <<>>

Next ==
    \/ Configure
    \/ Main
    \/ SelectTaskType
    \/ GenerateTaskData
    \/ DirectCall
    \/ Enter
    \/ Iterate
    \/ Return
    \/ SkipVideo
    \/ GenerateVideo
    \/ GivenFinalState
    \/ DirectSequence
    \/ WalkUnit
    \/ FinishFrames
    \/ EncodeVideo
    \/ ReturnPair
    \/ NextSample
    \/ Rerun
    \/ NextTask

Spec == Init /\ [][Next]_vars

(***************************************************************************)
(* Shorthands for the properties                                           *)
(***************************************************************************)
InputScene ==
    [light_a_state |-> task_data.light_a_state,
     light_a_countdown |-> task_data.light_a_countdown,
     light_b_state |-> task_data.light_b_state,
     light_b_countdown |-> task_data.light_b_countdown]

SceneOf(sa, ca, sb, cb) ==
    [light_a_state |-> sa, light_a_countdown |-> ca,
     light_b_state |-> sb, light_b_countdown |-> cb]

\* exactly one RED and one GREEN
OneRedOneGreen(sa, sb) ==
    \/ sa = "red" /\ sb = "green"
    \/ sa = "green" /\ sb = "red"

Sampled == pc # "idle" /\ task_data.task_type # 0

TypeOK ==
    /\ pc \in {"idle", "ready", "selected", "called", "loop", "done", "given",
              "walk", "frames", "prompt", "returned", "error"}
    /\ branch \in {"none", "a_red", "b_green"}
    /\ switches \in Nat
    /\ iterations \in Nat

Explicit == task_data.time_elapsed # None

\* a countdown goes from a positive value to exactly 0 in the iteration from loc
JustExpired ==
    LET d == Decrement(loc) IN
    \/ loc.current_a_countdown > 0 /\ d.current_a_countdown = 0
    \/ loc.current_b_countdown > 0 /\ d.current_b_countdown = 0

ColourChange ==
    \/ loc'.current_a_state # loc.current_a_state
    \/ loc'.current_b_state # loc.current_b_state

IsIteration == pc = "loop" /\ pc' = "loop"

(***************************************************************************)
(* Properties                                                              *)
(***************************************************************************)

\* C1: every scene _generate_task_data produces (types 1-4 and the fallback)
\* has exactly one RED and one GREEN light, and for every input scene whose
\* two states differ, every scene of the simulation and the returned scene
\* have exactly one RED and one GREEN light.
IntersectionRulePreserved ==
    /\ Sampled => OneRedOneGreen(task_data.light_a_state, task_data.light_b_state)
    /\ (pc \in {"loop", "done"} /\ task_data.light_a_state # task_data.light_b_state)
          => OneRedOneGreen(loc.current_a_state, loc.current_b_state)
    /\ (pc = "done" /\ task_data.light_a_state # task_data.light_b_state)
          => OneRedOneGreen(final_state.light_a_state, final_state.light_b_state)

IntersectionRuleWitness ==
    /\ pc = "done"
    /\ Sampled
    /\ switches > 0
    /\ final_state.light_a_state = "green"
    /\ final_state.light_b_state = "red"

\* the horizon as the claim states it
ClaimedHorizon(ca, cb) ==
    IF ca > 0 /\ cb > 0 THEN Min(ca, cb)
    ELSE IF ca > 0 \/ cb > 0 THEN ca + cb
    ELSE 0

\* C2: with elapsed omitted the simulator advances by exactly the horizon:
\* the smaller countdown if both are positive, the single positive one if
\* exactly one is, and 0 (result equal to the input) if both are 0; the
\* result equals the result of an explicit elapsed of that horizon.
AutoHorizon ==
    (pc \in {"loop", "done"} /\ ~Explicit) =>
        LET h == ClaimedHorizon(task_data.light_a_countdown,
                                task_data.light_b_countdown) IN
        /\ (pc = "loop" /\ iterations = 0) => loc.time_remaining = h
        /\ pc = "done" => final_state = Advance(InputScene, h)
        /\ (pc = "done" /\ h = 0) => final_state = InputScene

AutoHorizonWitness ==
    /\ pc = "done"
    /\ ~Explicit
    /\ task_data.light_a_countdown > task_data.light_b_countdown
    /\ task_data.light_b_countdown > 0
    /\ task_data.light_a_state = "green"
    /\ final_state.light_a_countdown > 0

\* C3: light_a RED/countdown c > 0, light_b GREEN/countdown 0, elapsed
\* omitted, ends as light_a GREEN/countdown 0, light_b RED/countdown 0.
SingleCountdown ==
    (/\ pc = "done"
     /\ ~Explicit
     /\ task_data.light_a_state = "red" /\ task_data.light_a_countdown > 0
     /\ task_data.light_b_state = "green" /\ task_data.light_b_countdown = 0)
    => final_state = SceneOf("green", 0, "red", 0)

SingleCountdownWitness ==
    /\ pc = "done"
    /\ ~Explicit
    /\ task_data.light_a_state = "red" /\ task_data.light_a_countdown = 5
    /\ task_data.light_b_state = "green" /\ task_data.light_b_countdown = 0
    /\ switches = 1

DualPre ==
    /\ ~Explicit
    /\ task_data.light_a_state = "red" /\ task_data.light_b_state = "green"
    /\ task_data.light_a_countdown > task_data.light_b_countdown
    /\ task_data.light_b_countdown > 0

\* C4: light_a RED/countdown ca, light_b GREEN/countdown cb, ca > cb > 0,
\* elapsed omitted: the horizon is cb, light_b expires first (the GREEN
\* branch switches), light_a's running countdown ca - cb is forced to 0 and
\* the result is light_a GREEN/countdown 0, light_b RED/countdown 0.
DualCountdownForcedCancel ==
    /\ (pc = "loop" /\ iterations = 0 /\ DualPre)
          => /\ loc.time_remaining = task_data.light_b_countdown
             /\ Decrement(loc).current_a_countdown
                  = task_data.light_a_countdown - task_data.light_b_countdown
             /\ Decrement(loc).current_b_countdown = 0
    /\ (pc = "done" /\ DualPre)
          => /\ final_state = SceneOf("green", 0, "red", 0)
             /\ branch = "b_green"
             /\ iterations = 1
             /\ switches = 1

DualCountdownWitness ==
    /\ pc = "done"
    /\ DualPre
    /\ task_data.light_a_countdown = 10
    /\ task_data.light_b_countdown = 4

TiePre ==
    /\ task_data.light_a_state = "red" /\ task_data.light_b_state = "green"
    /\ task_data.light_a_countdown > 0
    /\ task_data.light_b_countdown = task_data.light_a_countdown
    /\ task_data.time_elapsed = task_data.light_a_countdown

\* C5: light_a RED/countdown N, light_b GREEN/countdown N, N > 0, elapsed N:
\* the result is light_a GREEN/countdown 0, light_b RED/countdown 0, and the
\* switch is taken by the RED-light check of light_a, never by the
\* GREEN-light branch.
TieBreakRedFirst ==
    /\ (pc \in {"loop", "done"} /\ TiePre) => branch # "b_green"
    /\ (pc = "done" /\ TiePre)
          => /\ final_state = SceneOf("green", 0, "red", 0)
             /\ branch = "a_red"
             /\ switches = 1

TieBreakWitness ==
    /\ pc = "done"
    /\ TiePre
    /\ task_data.light_a_countdown = 3
    /\ branch = "a_red"

\* C6: the lights change colour only in an iteration in which some light's
\* countdown goes from a positive value to exactly 0; in particular light_a
\* RED/countdown c > 0, light_b GREEN/countdown 0 and explicit elapsed k,
\* 0 < k < c, ends as light_a RED/countdown c - k, light_b GREEN/countdown 0.
SwitchOnlyOnExpiry ==
    [][/\ (IsIteration /\ ColourChange) => JustExpired
       /\ (/\ pc' = "done"
           /\ task_data'.light_a_state = "red" /\ task_data'.light_b_state = "green"
           /\ task_data'.light_b_countdown = 0
           /\ task_data'.time_elapsed > 0
           /\ task_data'.time_elapsed < task_data'.light_a_countdown)
          => final_state' = SceneOf("red",
                 task_data'.light_a_countdown - task_data'.time_elapsed,
                 "green", 0)]_vars

\* C7: in either orientation, when an iteration brings a countdown from a
\* positive value to exactly 0 the two lights swap colours and both
\* countdowns are 0 afterwards; light_a GREEN/countdown c > 0, light_b
\* RED/countdown 0 with elapsed omitted ends as light_a RED, light_b GREEN.
SwitchSymmetric ==
    [][/\ (/\ IsIteration
           /\ OneRedOneGreen(loc.current_a_state, loc.current_b_state)
           /\ JustExpired)
          => /\ loc'.current_a_state = loc.current_b_state
             /\ loc'.current_b_state = loc.current_a_state
             /\ loc'.current_a_countdown = 0
             /\ loc'.current_b_countdown = 0
       /\ (/\ pc' = "done"
           /\ task_data'.light_a_state = "green" /\ task_data'.light_b_state = "red"
           /\ task_data'.light_a_countdown > 0
           /\ task_data'.light_b_countdown = 0
           /\ task_data'.time_elapsed = None)
          => /\ final_state'.light_a_state = "red"
             /\ final_state'.light_b_state = "green"]_vars

\* C8: an explicit elapsed of 0 returns the input scene in all four fields,
\* and advancing any returned scene by 0 returns it unchanged.
IdempotentSteadyState ==
    /\ (pc = "done" /\ task_data.time_elapsed = 0) => final_state = InputScene
    /\ pc # "idle" => Advance(InputScene, 0) = InputScene
    /\ pc = "done" => Advance(final_state, 0) = final_state

IdempotentWitness ==
    /\ pc = "done"
    /\ task_data.time_elapsed = 0
    /\ task_data.light_a_state = "red" /\ task_data.light_b_state = "green"
    /\ task_data.light_a_countdown > 0

\* C9: for a scene with one RED and one GREEN light and explicit elapsed
\* values k1 <= k2, each light's countdown after k2 is at most its countdown
\* after k1, and so is the sum of the two countdowns.
MonotoneInElapsed ==
    (/\ pc = "done"
     /\ Explicit
     /\ OneRedOneGreen(task_data.light_a_state, task_data.light_b_state))
    => \A k1 \in 0..task_data.time_elapsed :
          LET r1 == Advance(InputScene, k1) IN
          /\ final_state.light_a_countdown <= r1.light_a_countdown
          /\ final_state.light_b_countdown <= r1.light_b_countdown
          /\ final_state.light_a_countdown + final_state.light_b_countdown
               <= r1.light_a_countdown + r1.light_b_countdown

MonotoneWitness ==
    /\ pc = "done"
    /\ Explicit
    /\ task_data.light_a_state = "green" /\ task_data.light_b_state = "red"
    /\ iterations >= 2
    /\ final_state.light_a_countdown > 0
    /\ final_state.light_a_countdown < task_data.light_a_countdown

BudgetSpent ==
    \/ loc.time_remaining = 0
    \/ loc.current_a_countdown = 0 /\ loc.current_b_countdown = 0

\* C10: for a scene with one RED and one GREEN light and a non-negative
\* elapsed, every loop iteration consumes at least one unit of the budget,
\* the budget never goes below 0, and the loop exits exactly when the budget
\* is 0 or both countdowns are 0.
LoopTerminates ==
    /\ [](pc \in {"loop", "done"} =>
            /\ loc.time_remaining >= 0
            /\ iterations + loc.time_remaining
                 <= ResolveElapsed(task_data.light_a_countdown,
                                   task_data.light_b_countdown,
                                   task_data.time_elapsed)
            /\ BudgetSpent <=> ~LoopRuns(loc)
            /\ pc = "done" => BudgetSpent)
    /\ [][IsIteration =>
            /\ ~BudgetSpent
            /\ loc'.time_remaining <= loc.time_remaining - 1
            /\ loc'.time_remaining >= 0]_vars

LoopTerminatesWitness ==
    /\ pc = "done"
    /\ OneRedOneGreen(task_data.light_a_state, task_data.light_b_state)
    /\ iterations >= 2
    /\ loc.time_remaining = 0
    /\ loc.current_a_countdown > 0

(***************************************************************************)
(* Properties of the sequencer, the sampler and the generator              *)
(***************************************************************************)
FirstFrame == RenderScene(InputScene)
FinalFrame == RenderScene(final_state)

\* C11: the returned frame list starts with hold_frames frames that render
\* the initial scene and ends with hold_frames frames that render the final
\* scene, whether or not the walk reached the final state.
SequencerBoundary ==
    pc = "frames" =>
        /\ Len(frames) >= 2 * seq.hold_frames
        /\ \A i \in 1..seq.hold_frames :
              /\ frames[i] = FirstFrame
              /\ frames[Len(frames) - seq.hold_frames + i] = FinalFrame

SequencerBoundaryWitness ==
    /\ pc = "frames"
    /\ seq.exit = "safety"
    /\ seq.hold_frames = hold_frames_default
    /\ WalkScene(seq) # final_state

NoCountdown ==
    task_data.light_a_countdown = 0 /\ task_data.light_b_countdown = 0

\* C12: when both countdowns of the initial scene are 0 the sequencer
\* returns exactly 2*hold_frames frames, hold_frames of the initial render
\* then hold_frames of the final render, and no unit is walked.
NoCountdownDegeneration ==
    (pc = "frames" /\ NoCountdown) =>
        /\ Len(frames) = 2 * seq.hold_frames
        /\ frames = Repeat(FirstFrame, seq.hold_frames)
                      \o Repeat(FinalFrame, seq.hold_frames)
        /\ seq.time_elapsed = 0

NoCountdownWitness ==
    /\ pc = "frames"
    /\ NoCountdown
    /\ task_data.light_a_state = "red" /\ task_data.light_b_state = "green"
    /\ seq.hold_frames = 2
    /\ Len(frames) = 4

\* C13: for an initial scene with one RED and one GREEN light and a positive
\* countdown, and final = advance(initial, elapsed), the walk stops because
\* its running scene equals the final scene, never by the safety bound or
\* the loop limit.
SequencerConverges ==
    (/\ pc \in {"walk", "frames"}
     /\ OneRedOneGreen(task_data.light_a_state, task_data.light_b_state)
     /\ ~NoCountdown
     /\ final_state = Advance(InputScene, task_data.time_elapsed))
    => /\ seq.exit \in {"run", "matched"}
       /\ pc = "frames" => (seq.exit = "matched" /\ WalkScene(seq) = final_state)

\* C14: when the walk ends by the safety bound or the loop limit without
\* its running scene equalling the final scene, an error is surfaced and no
\* frame list or video is returned.
SafetyBoundSurfaced ==
    (/\ pc \in {"frames", "prompt", "returned"}
     /\ seq.exit \in {"safety", "limit"})
    => err # "none"

\* C15: every Type 3 sample has light_a RED with countdown in 8..15 and
\* light_b GREEN with countdown in 3..7, 0 < light_b countdown < light_a
\* countdown, and no explicit elapsed.
Type3Sample ==
    task_data.task_type = 3 =>
        /\ task_data.light_a_state = "red"
        /\ task_data.light_a_countdown \in 8..15
        /\ task_data.light_b_state = "green"
        /\ task_data.light_b_countdown \in 3..7
        /\ 0 < task_data.light_b_countdown
        /\ task_data.light_b_countdown < task_data.light_a_countdown
        /\ task_data.time_elapsed = None

Type3Witness ==
    /\ pc = "called"
    /\ task_type = 3
    /\ task_data.task_type = 3
    /\ task_data.light_a_countdown = 8
    /\ task_data.light_b_countdown = 7

\* C16: every Type 4 sample has both countdowns positive and an explicit
\* elapsed greater than both, and advancing it by that elapsed switches the
\* colours at least once.
Type4Sample ==
    task_data.task_type = 4 =>
        /\ task_data.light_a_countdown > 0
        /\ task_data.light_b_countdown > 0
        /\ task_data.time_elapsed # None
        /\ task_data.time_elapsed > task_data.light_a_countdown
        /\ task_data.time_elapsed > task_data.light_b_countdown
        /\ pc = "done" => switches >= 1

Type4Witness ==
    /\ pc = "done"
    /\ task_data.task_type = 4
    /\ task_data.light_a_countdown = 5
    /\ task_data.light_b_countdown = 7
    /\ switches = 1

\* the weights name only the types 1-4 and cover every draw
RECURSIVE SumWeights(_, _)
SumWeights(dist, keys) ==
    IF keys = {} THEN 0
    ELSE LET k == CHOOSE x \in keys : TRUE
         IN  dist[k] + SumWeights(dist, keys \ {k})

ValidDistribution(dist) ==
    /\ DOMAIN dist \subseteq 1..4
    /\ SumWeights(dist, DOMAIN dist) = 100

\* C17: a distribution that names an unknown type or whose weights do not
\* cover the draw is rejected before any sample is generated;
\* _select_task_type returns only keys of the distribution and
\* _generate_task_data never substitutes Type 1 for an unknown type.
DistributionChecked ==
    /\ pc \notin {"idle", "ready"} => ValidDistribution(config.task_type_distribution)
    /\ task_type # 0 => task_type \in DOMAIN config.task_type_distribution
    /\ task_data.task_type # 0 => task_data.task_type = task_type

ValidRange(range) == range[1] <= range[2]

\* C18: an inverted countdown range of type 1 or type 2 is reported when
\* the generator is constructed and never fails first while a sample of
\* that type is generated.
RangeChecked ==
    /\ pc # "idle" => /\ ValidRange(config.countdown_range_type1)
                      /\ ValidRange(config.countdown_range_type2)
    /\ ~(pc = "error" /\ err = "ValueError")

VideoAbsent == ~config.generate_videos \/ ~video_generator

\* C19: with videos disabled or no encoder, generate_task_pair returns a
\* complete sample whose video reference is None, the sequencer and the
\* encoder are never called and the video step raises nothing; the two
\* images are the renders of the initial scene and of the simulator's final
\* scene, with or without video.
VideoAbsenceGraceful ==
    /\ (Sampled /\ VideoAbsent) =>
          /\ pc \notin {"walk", "frames"}
          /\ frames = <<>>
          /\ seq = SeqLocals(NoTask, 0, 0)
          /\ video_path = "none"
          /\ err = "none"
    /\ (Sampled /\ pc \in {"prompt", "returned"}) =>
          /\ first_image = RenderScene(InputScene)
          /\ final_image = RenderScene(Advance(InputScene, task_data.time_elapsed))
    /\ (Sampled /\ VideoAbsent /\ pc = "returned") =>
          /\ prompt # NoPrompt
          /\ first_image # NoImage
          /\ final_image # NoImage
    /\ pc = "error" => ~Sampled

VideoAbsenceWitness ==
    /\ pc = "returned"
    /\ config.generate_videos
    /\ ~video_generator
    /\ task_data.task_type = 3
    /\ video_path = "none"

Walked == pc \in {"walk", "frames"} /\ seq.max_countdown > 0

\* the final state is the simulator's answer for the scene
FinalIsAdvance == final_state = Advance(InputScene, task_data.time_elapsed)

\* C21: the walk processes at most min(max initial countdown + 2, 31) units,
\* whatever the initial and the final scene, stops once that many units are
\* processed, and returns at most 2*hold_frames + 31*frames_per_countdown
\* frames.
WalkBounded ==
    Walked =>
        /\ seq.time_elapsed <= Min(seq.max_countdown + 2, SafetyBound + 1)
        /\ seq.time_elapsed = Min(seq.max_countdown + 2, SafetyBound + 1)
              => seq.exit # "run"
        /\ Len(frames) <= 2 * seq.hold_frames
                            + (SafetyBound + 1) * seq.frames_per_countdown

WalkBoundedWitness ==
    /\ pc = "frames"
    /\ seq.exit = "safety"
    /\ seq.time_elapsed = SafetyBound + 1
    /\ seq.max_countdown > SafetyBound + 1

\* C22: for an initial scene with one RED and one GREEN light and a positive
\* countdown, the running scene of the walk after unit t equals
\* advance(initial, t) of _calculate_final_state with explicit elapsed t.
WalkRefinesSimulator ==
    (/\ Walked
     /\ OneRedOneGreen(task_data.light_a_state, task_data.light_b_state)
     /\ seq.time_elapsed > 0)
    => WalkScene(seq) = Advance(InputScene, seq.time_elapsed - 1)

\* C23: with a positive countdown in the initial scene the frames of the
\* last processed unit are removed, so the list has exactly
\* 2*hold_frames + frames_per_countdown*(units processed - 1) frames, also
\* when the walk stops at its first unit.
TailDeduplicated ==
    (pc = "frames" /\ seq.max_countdown > 0) =>
        Len(frames) = 2 * seq.hold_frames
                        + seq.frames_per_countdown * (seq.time_elapsed - 1)

DefaultRanges ==
    /\ config.countdown_range_type1 = countdown_range_type1
    /\ config.countdown_range_type2 = countdown_range_type2

\* the smallest positive countdown of the sampled scene
SmallestPositive ==
    IF task_data.light_a_countdown > 0 /\ task_data.light_b_countdown > 0
    THEN Min(task_data.light_a_countdown, task_data.light_b_countdown)
    ELSE Max(task_data.light_a_countdown, task_data.light_b_countdown)

ReducedBy(countdown, t) == IF countdown > 0 THEN countdown - t ELSE 0

\* the frame the list is expected to hold at position i
ExpectedFrame(i) ==
    LET hold == seq.hold_frames
        fpc == seq.frames_per_countdown
        t == (i - hold - 1) \div fpc
    IN  IF i <= hold THEN FirstFrame
        ELSE IF i <= hold + fpc * SmallestPositive
        THEN Render(task_data.light_a_state,
                    ReducedBy(task_data.light_a_countdown, t),
                    task_data.light_b_state,
                    ReducedBy(task_data.light_b_countdown, t))
        ELSE FinalFrame

\* C24: for a sample of types 1-4 with the default ranges the frame list is
\* hold_frames initial frames, frames_per_countdown frames for each unit
\* t = 0..T-1 showing the initial colours and the positive countdowns
\* reduced by t, then hold_frames final frames, T being the smallest
\* positive initial countdown; the final scene is shown only in the final
\* hold and the initial scene in hold_frames + frames_per_countdown frames.
SampledFrameList ==
    (pc = "frames" /\ Sampled /\ DefaultRanges) =>
        /\ Len(frames) = 2 * seq.hold_frames
                           + seq.frames_per_countdown * SmallestPositive
        /\ \A i \in 1..Len(frames) : frames[i] = ExpectedFrame(i)
        /\ \A i \in 1..(Len(frames) - seq.hold_frames) : frames[i] # FinalFrame
        /\ Cardinality({i \in 1..Len(frames) : frames[i] = FirstFrame})
              = seq.hold_frames + seq.frames_per_countdown

SampledFrameListWitness ==
    /\ pc = "frames"
    /\ DefaultRanges
    /\ task_data.task_type = 4
    /\ task_data.light_a_countdown = 10
    /\ task_data.light_b_countdown = 3
    /\ Len(frames) = 16

\* light_a GREEN, light_b RED, no countdown
Absorbed ==
    [light_a_state |-> "green", light_a_countdown |-> 0,
     light_b_state |-> "red", light_b_countdown |-> 0]

\* C25 (as claimed): the final scene of every sample of types 1-4 is
\* light_a GREEN/0, light_b RED/0, whatever the countdowns drawn from the
\* configured ranges.
SampledFinalSceneAnyCountdown ==
    (Sampled /\ pc \in {"done", "walk", "frames", "prompt", "returned"})
        => final_state = Absorbed

\* C25: the final scene of every sample of types 1-4 whose initial scene
\* has a positive countdown is light_a GREEN/0, light_b RED/0, a sample
\* without countdown is returned unchanged, and for Type 4 the final scene
\* is GREEN/0, RED/0 for every elapsed the sampler can draw.
SampledFinalScene ==
    /\ (Sampled /\ pc \in {"done", "walk", "frames", "prompt", "returned"})
          => final_state = IF NoCountdown THEN InputScene ELSE Absorbed
    /\ (Sampled /\ task_data.task_type = 4) =>
          \A te \in (Max(task_data.light_a_countdown, task_data.light_b_countdown) + 2)
                    ..(Max(task_data.light_a_countdown, task_data.light_b_countdown) + 8) :
              Advance(InputScene, te) = Absorbed

SampledFinalSceneWitness ==
    /\ pc = "done"
    /\ task_data.task_type = 4
    /\ task_data.light_a_countdown = 5
    /\ task_data.light_b_countdown = 3
    /\ task_data.time_elapsed = 13
    /\ final_state = Absorbed

\* C26: in one call of _calculate_final_state the colours change at most
\* once; after the change the scene is light_a GREEN/0, light_b RED/0, and
\* advancing that scene by any elapsed returns it unchanged.
SingleColourChange ==
    /\ switches <= 1
    /\ (pc \in {"loop", "done"} /\ switches = 1) => Scene(loc) = Absorbed
    /\ (pc = "done" /\ switches = 1) => final_state = Absorbed
    /\ (pc = "done" /\ InputScene = Absorbed) =>
          (final_state = Absorbed /\ switches = 0)
    /\ \A te \in {None} \cup 0..MaxElapsed : Advance(Absorbed, te) = Absorbed

SingleColourChangeWitness ==
    /\ pc = "done"
    /\ switches = 1
    /\ task_data.light_a_countdown = 2
    /\ task_data.light_b_countdown = 3
    /\ task_data.time_elapsed = MaxElapsed
    /\ iterations = 1

IsWalkUnit == pc = "walk" /\ seq'.time_elapsed = seq.time_elapsed + 1

\* C27: in a unit of the walk a switch is triggered only by a light whose
\* running countdown was positive before the unit and is 0 after it; a
\* light already at 0 triggers nothing, the colours change only by such a
\* switch, and when both lights cross in the same unit and light_a is RED
\* the RED-light switch is the one taken.
WalkSwitchOnlyOnCrossing ==
    [][IsWalkUnit =>
        /\ seq'.switched = "a_red" =>
              /\ seq.current_a_state = "red"
              /\ seq.current_a_countdown > 0
              /\ seq'.current_a_countdown = 0
        /\ seq'.switched = "b_green" =>
              /\ seq.current_b_state = "green"
              /\ seq.current_b_countdown > 0
              /\ seq'.current_b_countdown = 0
        /\ seq'.switched = "none" =>
              /\ seq'.current_a_state = seq.current_a_state
              /\ seq'.current_b_state = seq.current_b_state
        /\ (/\ seq.current_a_countdown > 0
            /\ seq.current_b_countdown > 0
            /\ CountdownAt(task_data.light_a_countdown, seq.time_elapsed) = 0
            /\ CountdownAt(task_data.light_b_countdown, seq.time_elapsed) = 0
            /\ seq.current_a_state = "red")
              => seq'.switched = "a_red"
      ]_vars

WalkSwitchWitness ==
    /\ pc = "walk"
    /\ seq.switched = "a_red"
    /\ task_data.light_a_countdown = task_data.light_b_countdown
    /\ task_data.light_b_state = "green"
    /\ seq.exit = "run"

Shown(light) == IF light.text = None THEN 0 ELSE light.text

\* C28: for an initial scene with one RED and one GREEN light and
\* final = advance(initial, elapsed), the countdown each light displays
\* never increases from one frame of the returned list to the next.
MonotonicAnimation ==
    (/\ pc = "frames"
     /\ OneRedOneGreen(task_data.light_a_state, task_data.light_b_state)
     /\ FinalIsAdvance)
    => \A i \in 1..(Len(frames) - 1) :
          /\ Shown(frames[i + 1].a) <= Shown(frames[i].a)
          /\ Shown(frames[i + 1].b) <= Shown(frames[i].b)

MonotonicAnimationWitness ==
    /\ pc = "frames"
    /\ FinalIsAdvance
    /\ seq.switched = "b_green"
    /\ task_data.light_a_state = "red"
    /\ task_data.light_a_countdown > task_data.light_b_countdown + 1
    /\ Len(frames) > 2 * seq.hold_frames + seq.frames_per_countdown

\* C29: for a scene with one RED and one GREEN light and explicit elapsed,
\* advance(advance(scene, j), k) = advance(scene, j + k) for all j, k >= 0.
AdditiveInElapsed ==
    (/\ pc = "done"
     /\ Explicit
     /\ OneRedOneGreen(task_data.light_a_state, task_data.light_b_state))
    => \A j \in 0..task_data.time_elapsed :
          Advance(Advance(InputScene, j), task_data.time_elapsed - j) = final_state

AdditiveWitness ==
    /\ pc = "done"
    /\ task_data.task_type = 0
    /\ task_data.light_a_state = "red"
    /\ task_data.light_a_countdown = 3
    /\ task_data.light_b_countdown = 2
    /\ task_data.time_elapsed = 3
    /\ switches = 1

\* C30: every countdown of the simulator's loop, of its result, of the
\* walk's running scene and of the returned frames is between 0 and the
\* light's initial countdown.
CountdownsWithinBounds ==
    /\ pc \in {"loop", "done"} =>
          /\ loc.current_a_countdown \in 0..task_data.light_a_countdown
          /\ loc.current_b_countdown \in 0..task_data.light_b_countdown
    /\ pc = "done" =>
          /\ final_state.light_a_countdown \in 0..task_data.light_a_countdown
          /\ final_state.light_b_countdown \in 0..task_data.light_b_countdown
    /\ Walked =>
          /\ seq.current_a_countdown \in 0..task_data.light_a_countdown
          /\ seq.current_b_countdown \in 0..task_data.light_b_countdown
          /\ \A i \in 1..(Len(frames) - (IF pc = "frames" THEN seq.hold_frames ELSE 0)) :
                /\ Shown(frames[i].a) \in 0..task_data.light_a_countdown
                /\ Shown(frames[i].b) \in 0..task_data.light_b_countdown

CountdownsWithinBoundsWitness ==
    /\ pc = "frames"
    /\ seq.exit = "limit"
    /\ task_data.light_a_countdown > 0
    /\ seq.time_elapsed > task_data.light_a_countdown + 1
    /\ task_data.light_b_countdown > task_data.light_a_countdown

(***************************************************************************)
(* Properties of the rendered scenes and of the command line               *)
(***************************************************************************)
\* one light of the image is red and the other green
FrameObeysRule(frame) == OneRedOneGreen(frame.a.colour, frame.b.colour)

\* C31: for an initial scene with exactly one RED and one GREEN light the
\* running scene of the walk has exactly one RED and one GREEN light after
\* every unit, the unit of a switch included, and so has every frame
\* rendered from it.
WalkObeysIntersectionRule ==
    (/\ Walked
     /\ OneRedOneGreen(task_data.light_a_state, task_data.light_b_state))
    => /\ OneRedOneGreen(seq.current_a_state, seq.current_b_state)
       /\ \A i \in 1..(Len(frames) - (IF pc = "frames" THEN seq.hold_frames ELSE 0)) :
             FrameObeysRule(frames[i])
       /\ (pc = "frames" /\ FinalIsAdvance) =>
             \A i \in 1..Len(frames) : FrameObeysRule(frames[i])

WalkObeysRuleWitness ==
    /\ pc = "walk"
    /\ seq.switched = "b_green"
    /\ seq.exit = "run"
    /\ task_data.light_a_state = "red"
    /\ seq.current_a_state = "green"
    /\ seq.current_b_state = "red"
    /\ Len(frames) > seq.hold_frames + seq.frames_per_countdown

\* a ratio option is given, and no --types
RatioGiven ==
    /\ args.types = {}
    /\ \/ args.type1_ratio # None \/ args.type2_ratio # None
       \/ args.type3_ratio # None \/ args.type4_ratio # None

\* the weights the options are documented to give
GivenRatios ==
    (1 :> OrGiven(args.type1_ratio, 35) @@ 2 :> OrGiven(args.type2_ratio, 30)
       @@ 3 :> OrGiven(args.type3_ratio, 20) @@ 4 :> OrGiven(args.type4_ratio, 15))

\* C32: when a --typeN-ratio option is given, each given ratio, 0.0
\* included, is the weight of its type, the other types keep their
\* defaults, the distribution of the generator is the weights divided by
\* their total, and a type given ratio 0.0 has probability 0.
RatioOverridesHonoured ==
    (pc # "idle" /\ RatioGiven) =>
        /\ DOMAIN config.task_type_distribution = 1..4
        /\ \A k \in 1..4 :
              config.task_type_distribution[k] * Total(GivenRatios)
                  = GivenRatios[k] * 100
        /\ args.type1_ratio = 0 => config.task_type_distribution[1] = 0
        /\ task_type # 0 => GivenRatios[task_type] # 0

====
